---- MODULE Spec2Model ----
(***************************************************************************)
(* The process-scrape-jobs edge function (index.ts), the SQL function      *)
(* get_undone_scrape_jobs it calls, and the store and executor it talks    *)
(* to.  Every await of the handler is a separate step, so that several     *)
(* invocations of the handler ("passes") and the consumer that finishes    *)
(* jobs interleave at exactly the points where the code yields.            *)
(***************************************************************************)
EXTENDS Integers, Sequences, FiniteSets, TLC

\* ---------------------------------------------------------------- bounds
NumJobs == 2
PartsPerJob == 2
MaxRuns == 2

Jobs == 1..NumJobs
Parts == Jobs \X (1..PartsPerJob)
\* two invocations of the handler can be live at once
Passes == {"A", "B"}

\* scrape_job_parts.job_id of a part
PartJob(part) == part[1]

\* scrape_jobs.created_at: distinct timestamps, not in id order
CreatedAt(j) == NumJobs + 1 - j

Status == {"undone", "ongoing", "done", "failed"}

VARIABLES
  env,            \* Deno.env: which configuration values are set
  jobStatus,      \* scrape_jobs.status by job id
  partStatus,     \* scrape_job_parts.status by part id
  accepts,        \* executor: how many submissions of each job it accepted
  runs,           \* number of invocations of the handler so far
  pc,             \* per pass: the await the handler is suspended at
  jobs,           \* per pass: data returned by the rpc
  idx,            \* per pass: position of the for loop in jobs
  processedJobs,  \* per pass: processedJobs
  failedJobs,     \* per pass: failedJobs
  calls,          \* per pass: executor and store calls made for the current job
  submitted,      \* per pass: the jobs submitted to the executor, in order
  response        \* per pass: the Response returned

vars == <<env, jobStatus, partStatus, accepts, runs, pc, jobs, idx,
          processedJobs, failedJobs, calls, submitted, response>>

store == <<jobStatus, partStatus>>
locals == <<jobs, idx, processedJobs, failedJobs, calls, submitted, response>>

Range(s) == {s[i] : i \in 1..Len(s)}

\* ------------------------------------------------ get_undone_scrape_jobs
UndoneRowsAnyJob == {part \in Parts : partStatus[part] = "undone"}

\* rows of scrape_jobs JOIN scrape_job_parts that pass the WHERE clause
UndoneRows == {part \in Parts : /\ jobStatus[PartJob(part)] = "undone"
                                /\ partStatus[part] = "undone"}

\* GROUP BY sj.id: one row per job that has at least one joined row
UndoneJobIds == {PartJob(part) : part \in UndoneRows}

\* json_agg over the group: the joined parts of one job
JobParts(j) == {part \in UndoneRows : PartJob(part) = j}

RECURSIVE OrderByCreatedAt(_)

OrderByCreatedAtDesc(S) ==
  IF S = {} THEN <<>>
  ELSE LET j == CHOOSE x \in S : \A y \in S : CreatedAt(x) >= CreatedAt(y)
       IN <<j>> \o OrderByCreatedAt(S \ {j})

\* ORDER BY sj.created_at ASC
OrderByCreatedAt(S) ==
  IF S = {} THEN <<>>
  ELSE LET j == CHOOSE x \in S : \A y \in S : CreatedAt(x) <= CreatedAt(y)
       IN <<j>> \o OrderByCreatedAt(S \ {j})

get_undone_scrape_jobs ==
  LET ids == OrderByCreatedAt(UndoneJobIds)
  IN [i \in 1..Len(ids) |-> [job_id |-> ids[i], job_parts |-> JobParts(ids[i])]]

\* ------------------------------------------------------------ responses
NoResponse ==
  [status |-> 0, message |-> "none", total_found |-> 0,
   processed_jobs |-> <<>>, failed_jobs |-> <<>>]

\* lines 29-31
PreflightResponse == [NoResponse EXCEPT !.status = 200, !.message = "ok"]

\* lines 192-205
ErrorResponse(msg) == [NoResponse EXCEPT !.status = 500, !.message = msg]

\* lines 66-77
NoJobsResponse ==
  [NoResponse EXCEPT !.status = 200, !.message = "No undone jobs found"]

\* lines 178-191
SummaryResponse(found, processed, failed) ==
  [status |-> 200, message |-> "Processed", total_found |-> Len(found),
   processed_jobs |-> processed, failed_jobs |-> failed]

\* ------------------------------------------------------ executor replies
\* What fetch() settles with: a thrown network error; a non-2xx reply whose
\* body can or cannot be read; a 2xx reply whose body is not JSON (or is JSON
\* null, so that reading .success throws); a 2xx JSON object whose success
\* field is absent, false or true.
FlaskReplies ==
  { [thrown |-> TRUE,  status |-> 0,   body |-> "none",       success |-> "absent"],
    [thrown |-> FALSE, status |-> 503, body |-> "text",       success |-> "absent"],
    [thrown |-> FALSE, status |-> 503, body |-> "unreadable", success |-> "absent"],
    [thrown |-> FALSE, status |-> 200, body |-> "text",       success |-> "absent"],
    [thrown |-> FALSE, status |-> 200, body |-> "json",       success |-> "absent"],
    [thrown |-> FALSE, status |-> 200, body |-> "json",       success |-> "false"],
    [thrown |-> FALSE, status |-> 200, body |-> "json",       success |-> "true"] }

\* Response.ok
ResponseOk(r) == r.status \in 200..299

\* the executor took the job: it answered 2xx with success true
ExecutorAccepted(r) ==
  ~r.thrown /\ ResponseOk(r) /\ r.body = "json" /\ r.success = "true"

\* results of a store update: { error: null }, { error }, or a rejection
StoreResults == {"ok", "error", "thrown"}

\* ------------------------------------------------------------------ Init
Init ==
  /\ env \in [SERVICE_ROLE_KEY : BOOLEAN, REDIS_URL : BOOLEAN]
  /\ jobStatus \in [Jobs -> {"undone", "done"}]
  /\ \E finished \in SUBSET {part \in Parts : part[2] = 1} :
       partStatus = [part \in Parts |->
                       IF part \in finished THEN "done" ELSE "undone"]
  /\ accepts = [j \in Jobs |-> 0]
  /\ runs = 0
  /\ pc = [p \in Passes |-> "idle"]
  /\ jobs = [p \in Passes |-> <<>>]
  /\ idx = [p \in Passes |-> 0]
  /\ processedJobs = [p \in Passes |-> <<>>]
  /\ failedJobs = [p \in Passes |-> <<>>]
  /\ calls = [p \in Passes |-> <<>>]
  /\ submitted = [p \in Passes |-> <<>>]
  /\ response = [p \in Passes |-> NoResponse]

\* ------------------------------------------------- the handler, step by step
\* the job the for loop is at
Job(p) == jobs[p][idx[p]]

Call(op, j, result) == [op |-> op, job_id |-> j, result |-> result]

Failure(j, error) == [job_id |-> j, error |-> error]

PushFailedLost(failed, j, error) == failed

\* failedJobs.push({ job_id, error })
PushFailed(failed, j, error) == Append(failed, Failure(j, error))

\* processedJobs.push({ job_id, flask_response })
PushProcessed(processed, j) == Append(processed, j)

HasNextJobFirstOnly(i, n) == i < n /\ i < 1

\* for (const job of jobs): is there a next element
HasNextJob(i, n) == i < n

EndIterationRetry(p, processed, failed) ==
  /\ processedJobs' = [processedJobs EXCEPT ![p] = processed]
  /\ failedJobs' = [failedJobs EXCEPT ![p] = failed]
  /\ IF Len(failed) > Len(failedJobs[p])
          /\ \A i \in 1..Len(failedJobs[p]) :
               failedJobs[p][i].job_id # jobs[p][idx[p]].job_id
       THEN /\ idx' = idx
            /\ pc' = [pc EXCEPT ![p] = "submit"]
            /\ response' = response
       ELSE IF idx[p] < Len(jobs[p])
       THEN /\ idx' = [idx EXCEPT ![p] = @ + 1]
            /\ pc' = [pc EXCEPT ![p] = "submit"]
            /\ response' = response
       ELSE /\ idx' = idx
            /\ pc' = [pc EXCEPT ![p] = "done"]
            /\ response' = [response EXCEPT ![p] =
                              SummaryResponse(jobs[p], processed, failed)]

\* The end of one loop iteration (a continue, the end of the try block or the
\* end of the catch block) with the two lists as they now are: the loop moves
\* to the next job, or ends and the handler returns the summary.
EndIteration(p, processed, failed) ==
  /\ processedJobs' = [processedJobs EXCEPT ![p] = processed]
  /\ failedJobs' = [failedJobs EXCEPT ![p] = failed]
  /\ IF HasNextJob(idx[p], Len(jobs[p]))
       THEN /\ idx' = [idx EXCEPT ![p] = @ + 1]
            /\ pc' = [pc EXCEPT ![p] = "submit"]
            /\ response' = response
       ELSE /\ idx' = idx
            /\ pc' = [pc EXCEPT ![p] = "done"]
            /\ response' = [response EXCEPT ![p] =
                              SummaryResponse(jobs[p], processed, failed)]

CatchJobErrorRethrown(p, message) ==
  /\ pc' = [pc EXCEPT ![p] = "done"]
  /\ response' = [response EXCEPT ![p] = ErrorResponse(message)]
  /\ UNCHANGED <<idx, processedJobs, failedJobs>>

\* catch (jobError) of the loop body, lines 172-175
CatchJobError(p, message) ==
  EndIteration(p, processedJobs[p], PushFailed(failedJobs[p], Job(p).job_id, message))

\* The handler returns from the outer try or catch without entering the loop.
Return(p, r) ==
  /\ pc' = [pc EXCEPT ![p] = "done"]
  /\ response' = [response EXCEPT ![p] = r]
  /\ jobs' = [jobs EXCEPT ![p] = <<>>]
  /\ idx' = [idx EXCEPT ![p] = 0]
  /\ processedJobs' = [processedJobs EXCEPT ![p] = <<>>]
  /\ failedJobs' = [failedJobs EXCEPT ![p] = <<>>]
  /\ calls' = [calls EXCEPT ![p] = <<>>]
  /\ submitted' = [submitted EXCEPT ![p] = <<>>]

ConfigErrorKeyOnly(e) ==
  IF ~e.SERVICE_ROLE_KEY THEN "SERVICE_ROLE_KEY environment variable is required"
  ELSE ""

\* the environment checks of lines 46-52: the message thrown, or "" if none
ConfigError(e) ==
  IF ~e.SERVICE_ROLE_KEY THEN "SERVICE_ROLE_KEY environment variable is required"
  ELSE IF ~e.REDIS_URL THEN "REDIS_URL environment variable is required"
  ELSE ""

IsPreflightNever(method) == FALSE

\* req.method === "OPTIONS"
IsPreflight(method) == method = "OPTIONS"

\* A request arrives: lines 28-59, up to the await of the rpc.
Request(p, method) ==
  /\ pc[p] \in {"idle", "done"}
  /\ runs < MaxRuns
  /\ runs' = runs + 1
  /\ IF IsPreflight(method) THEN Return(p, PreflightResponse)
     ELSE IF ConfigError(env) # "" THEN Return(p, ErrorResponse(ConfigError(env)))
     ELSE /\ pc' = [pc EXCEPT ![p] = "rpc"]
          /\ response' = [response EXCEPT ![p] = NoResponse]
          /\ jobs' = [jobs EXCEPT ![p] = <<>>]
          /\ idx' = [idx EXCEPT ![p] = 0]
          /\ processedJobs' = [processedJobs EXCEPT ![p] = <<>>]
          /\ failedJobs' = [failedJobs EXCEPT ![p] = <<>>]
          /\ calls' = [calls EXCEPT ![p] = <<>>]
          /\ submitted' = [submitted EXCEPT ![p] = <<>>]
  /\ UNCHANGED <<env, store, accepts>>

NoJobsUnchecked(data) == FALSE

\* !jobs || jobs.length === 0
NoJobs(data) == Len(data) = 0

QueryFailedIgnored(queryError) == FALSE

\* if (queryError) throw queryError
QueryFailed(queryError) == queryError

\* The rpc returns: lines 57-84.
Rpc(p, queryError) ==
  /\ pc[p] = "rpc"
  /\ IF QueryFailed(queryError) THEN Return(p, ErrorResponse("queryError"))
     ELSE LET data == get_undone_scrape_jobs IN
          IF NoJobs(data) THEN Return(p, NoJobsResponse)
          ELSE IF ~HasNextJob(0, Len(data))
                 THEN Return(p, SummaryResponse(data, <<>>, <<>>))
          ELSE /\ jobs' = [jobs EXCEPT ![p] = data]
               /\ idx' = [idx EXCEPT ![p] = 1]
               /\ pc' = [pc EXCEPT ![p] = "submit"]
               /\ UNCHANGED <<processedJobs, failedJobs, calls, submitted, response>>
  /\ UNCHANGED <<env, store, accepts, runs>>

SubmitIfStillUndone(p) ==
  /\ pc[p] = "submit"
  /\ jobStatus[jobs[p][idx[p]].job_id] = "undone"
  /\ calls' = [calls EXCEPT ![p] = <<[op |-> "submit", job_id |-> jobs[p][idx[p]].job_id,
                                       result |-> "pending"]>>]
  /\ submitted' = [submitted EXCEPT ![p] = Append(@, jobs[p][idx[p]].job_id)]
  /\ pc' = [pc EXCEPT ![p] = "flask"]
  /\ UNCHANGED <<env, store, accepts, runs, jobs, idx, processedJobs, failedJobs,
                 response>>

\* The loop body up to the await of fetch: lines 86-106.  calls[p] starts
\* afresh: it holds the calls made for the job the loop is at.
Submit(p) ==
  /\ pc[p] = "submit"
  /\ calls' = [calls EXCEPT ![p] = <<Call("submit", Job(p).job_id, "pending")>>]
  /\ submitted' = [submitted EXCEPT ![p] = Append(@, jobs[p][idx[p]].job_id)]
  /\ pc' = [pc EXCEPT ![p] = "flask"]
  /\ UNCHANGED <<env, store, accepts, runs, jobs, idx, processedJobs, failedJobs,
                 response>>

\* does an await of lines 100-118 throw: fetch, response.text(), response.json()
Throws(r) ==
  \/ r.thrown
  \/ ~ResponseOk(r) /\ r.body = "unreadable"
  \/ ResponseOk(r) /\ r.body # "json"

FlaskFailureFlagUnchecked(r) ==
  IF r.thrown THEN "network error"
  ELSE IF ~ResponseOk(r)
    THEN IF r.body = "unreadable" THEN "body error" ELSE "Flask API error"
  ELSE IF r.body # "json" THEN "invalid JSON"
  ELSE ""

FlaskFailureAbsentPasses(r) ==
  IF r.thrown THEN "network error"
  ELSE IF ~ResponseOk(r)
    THEN IF r.body = "unreadable" THEN "body error" ELSE "Flask API error"
  ELSE IF r.body # "json" THEN "invalid JSON"
  ELSE IF r.success = "false" THEN "Flask API failure"
  ELSE ""

\* What the code does with the executor's reply, lines 108-132: the failure
\* it records, or "" when it goes on to the status updates.  The test of
\* line 122 is !flaskResult.success.
FlaskFailure(r) ==
  IF r.thrown THEN "network error"
  ELSE IF ~ResponseOk(r)
    THEN IF r.body = "unreadable" THEN "body error" ELSE "Flask API error"
  ELSE IF r.body # "json" THEN "invalid JSON"
  ELSE IF r.success # "true" THEN "Flask API failure"
  ELSE ""

\* the outcome of a submission as the call log records it
FlaskResult(r) ==
  IF Throws(r) THEN (IF r.thrown THEN "thrown"
                     ELSE IF ResponseOk(r) THEN "notJson" ELSE "unreadable")
  ELSE IF ~ResponseOk(r) THEN "notOk"
  ELSE IF r.success = "absent" THEN "noFlag"
  ELSE IF r.success = "false" THEN "rejected"
  ELSE "accepted"

SetLast(s, result) == [s EXCEPT ![Len(s)].result = result]

\* fetch settles and the reply is examined: lines 100-132.
Flask(p, r) ==
  /\ pc[p] = "flask"
  /\ calls' = [calls EXCEPT ![p] = SetLast(@, FlaskResult(r))]
  /\ accepts' = IF ExecutorAccepted(r)
                  THEN [accepts EXCEPT ![Job(p).job_id] = @ + 1]
                  ELSE accepts
  /\ IF FlaskFailure(r) # ""
       THEN IF Throws(r)
              THEN CatchJobError(p, FlaskFailure(r))
              ELSE EndIteration(p, processedJobs[p],
                                PushFailed(failedJobs[p], Job(p).job_id, FlaskFailure(r)))
       ELSE /\ pc' = [pc EXCEPT ![p] = "updateJob"]
            /\ UNCHANGED <<idx, processedJobs, failedJobs, response>>
  /\ UNCHANGED <<env, store, runs, jobs, submitted>>

StoreAppliesAlways(result) == TRUE

\* an update that reports an error or rejects has written nothing
StoreApplies(result) == result = "ok"

\* .from("scrape_jobs").update({ status: "ongoing" }).eq("id", job_id)
UpdateScrapeJobs(status, j) == [status EXCEPT ![j] = "ongoing"]

\* .from("scrape_job_parts").update({ status: "ongoing" }).eq("job_id", job_id)
UpdateScrapeJobParts(status, j) ==
  [part \in Parts |-> IF PartJob(part) = j THEN "ongoing" ELSE status[part]]

AfterUpdateJobUnchecked(result) == "updateParts"

\* what the code does after the job update, lines 140-147
AfterUpdateJob(result) ==
  IF result = "ok" THEN "updateParts" ELSE "failed"

\* The update of scrape_jobs settles: lines 135-147.
UpdateJob(p, result) ==
  /\ pc[p] = "updateJob"
  /\ calls' = [calls EXCEPT ![p] = Append(@, Call("updateJob", Job(p).job_id, result))]
  /\ jobStatus' = IF StoreApplies(result) THEN UpdateScrapeJobs(jobStatus, Job(p).job_id)
                  ELSE jobStatus
  /\ IF AfterUpdateJob(result) = "updateParts"
       THEN /\ pc' = [pc EXCEPT ![p] = "updateParts"]
            /\ UNCHANGED <<idx, processedJobs, failedJobs, response>>
       ELSE IF result = "thrown" THEN CatchJobError(p, "store error")
       ELSE EndIteration(p, processedJobs[p],
                         PushFailed(failedJobs[p], Job(p).job_id, "DB update error"))
  /\ UNCHANGED <<env, partStatus, accepts, runs, jobs, submitted>>

PartsUpdatedUnchecked(result) == TRUE

\* does the job count as processed after the parts update, lines 155-170
PartsUpdated(result) == result = "ok"

\* The update of scrape_job_parts settles: lines 150-171.
UpdateParts(p, result) ==
  /\ pc[p] = "updateParts"
  /\ calls' = [calls EXCEPT ![p] = Append(@, Call("updateParts", Job(p).job_id, result))]
  /\ partStatus' = IF StoreApplies(result) THEN UpdateScrapeJobParts(partStatus, Job(p).job_id)
                   ELSE partStatus
  /\ IF PartsUpdated(result)
       THEN EndIteration(p, PushProcessed(processedJobs[p], Job(p).job_id), failedJobs[p])
       ELSE IF result = "thrown" THEN CatchJobError(p, "store error")
       ELSE EndIteration(p, processedJobs[p],
                         PushFailed(failedJobs[p], Job(p).job_id, "DB parts update error"))
  /\ UNCHANGED <<env, jobStatus, accepts, runs, jobs, submitted>>

\* The consumer that finishes dispatched work: an in-progress job and its
\* in-progress parts become done or failed.
Consumer(j, s) ==
  /\ jobStatus[j] = "ongoing"
  /\ jobStatus' = [jobStatus EXCEPT ![j] = s]
  /\ partStatus' = [part \in Parts |->
                      IF PartJob(part) = j /\ partStatus[part] = "ongoing"
                        THEN s ELSE partStatus[part]]
  /\ UNCHANGED <<env, accepts, runs, pc, locals>>

\* every step of a pass after the request has arrived
PassStep(p) ==
  \/ \E queryError \in BOOLEAN : Rpc(p, queryError)
  \/ Submit(p)
  \/ \E r \in FlaskReplies : Flask(p, r)
  \/ \E result \in StoreResults : UpdateJob(p, result)
  \/ \E result \in StoreResults : UpdateParts(p, result)

\* no invocation of the handler is under way
Quiet == \A p \in Passes : pc[p] \in {"idle", "done"}

\* The program: invocations overlap freely, the consumer runs alongside.
Next ==
  \/ \E p \in Passes, method \in {"OPTIONS", "POST"} : Request(p, method)
  \/ \E p \in Passes : PassStep(p)
  \/ \E j \in Jobs, s \in {"done", "failed"} : Consumer(j, s)

Spec == Init /\ [][Next]_vars

\* The trigger serialises the invocations: a pass starts only when no other
\* is under way.  The consumer runs alongside.
NextSerial ==
  \/ \E method \in {"OPTIONS", "POST"} : Quiet /\ Request("A", method)
  \/ PassStep("A")
  \/ \E j \in Jobs, s \in {"done", "failed"} : Consumer(j, s)

SpecSerial == Init /\ [][NextSerial]_vars

\* Serialised invocations and no other writer of the store.
NextSolo ==
  \/ \E method \in {"OPTIONS", "POST"} : Quiet /\ Request("A", method)
  \/ PassStep("A")

SpecSolo == Init /\ [][NextSolo]_vars

\* the steps of a pass that the runtime and the store complete on their own:
\* every step but the settling of the fetch to the executor
HandlerStep(p) ==
  \/ \E queryError \in BOOLEAN : Rpc(p, queryError)
  \/ Submit(p)
  \/ \E result \in StoreResults : UpdateJob(p, result)
  \/ \E result \in StoreResults : UpdateParts(p, result)

\* Serialised invocations in which the runtime resumes the handler and the
\* store answers every call.  Nothing obliges the executor to answer, and
\* the handler sets no timer on its fetch: Flask is not under fairness.
SpecLive == Init /\ [][NextSolo]_vars /\ WF_vars(HandlerStep("A"))

\* ------------------------------------------------------------ properties
Ids(list) == {list[i].job_id : i \in 1..Len(list)}
Fetched(p) == Ids(jobs[p])
Failed(p) == Ids(failedJobs[p])
Processed(p) == Range(processedJobs[p])
Recorded(p) == Failed(p) \cup Processed(p)

\* how often job j appears in the two lists of pass p
Occurrences(p, j) ==
  Cardinality({i \in 1..Len(processedJobs[p]) : processedJobs[p][i] = j})
  + Cardinality({i \in 1..Len(failedJobs[p]) : failedJobs[p][i].job_id = j})

Summarised(p) == response[p].message = "Processed"

\* a fetch is awaited or a store update is awaited for the job at idx
InFlight(p) == pc[p] \in {"flask", "updateJob", "updateParts"}

\* the call log of p ends with a call that had this result
LastResult(p) == calls[p][Len(calls[p])].result

\* the iteration for the job of the call log is over, the job is in the
\* failed list only, and the loop is at the next job or has returned the summary
FailedAndMovedOn(p) ==
  LET j == calls[p][1].job_id IN
  /\ j \in Failed(p) /\ j \notin Processed(p)
  /\ \/ pc[p] = "submit" /\ idx[p] > 1 /\ jobs[p][idx[p] - 1].job_id = j
     \/ /\ pc[p] = "done" /\ idx[p] = Len(jobs[p]) /\ Job(p).job_id = j
        /\ response[p].status = 200 /\ Summarised(p)

\* C1: a pass that returns a summary has recorded every fetched job exactly
\* once: the two lists together are as long as the batch, the summary reports
\* exactly these lists and this count, and every fetched job occurs once in
\* the two lists.
C1_OneOutcomePerJob ==
  \A p \in Passes : Summarised(p) =>
    /\ Len(jobs[p]) > 0
    /\ response[p].total_found = Len(jobs[p])
    /\ response[p].processed_jobs = processedJobs[p]
    /\ response[p].failed_jobs = failedJobs[p]
    /\ Len(processedJobs[p]) + Len(failedJobs[p]) = response[p].total_found
    /\ Recorded(p) = Fetched(p)
    /\ \A j \in Fetched(p) : Occurrences(p, j) = 1

\* a summary with one job processed and one failed by a store error after
\* the executor had accepted it
C1_Witness ==
  /\ Summarised("A")
  /\ Len(processedJobs["A"]) = 1
  /\ Len(failedJobs["A"]) = 1
  /\ failedJobs["A"][1].error = "DB parts update error"

\* C2: the status of a job becomes ongoing only in the step of a pass whose
\* submission of that job the executor has accepted (2xx, success true), and
\* a pass calls the job update only after such a reply for the same job.
C2_OngoingOnlyAfterAccept ==
  [][ /\ \A j \in Jobs : (jobStatus'[j] = "ongoing" /\ jobStatus[j] # "ongoing") =>
           \E p \in Passes : /\ pc[p] = "updateJob"
                             /\ calls[p] = <<Call("submit", j, "accepted")>>
      /\ \A p \in Passes : \A i \in 1..Len(calls'[p]) :
           calls'[p][i].op = "updateJob" =>
             /\ i = 2
             /\ calls'[p][1] = Call("submit", calls'[p][i].job_id, "accepted") ]_vars

C2_Witness ==
  /\ Len(calls["A"]) = 2
  /\ calls["A"][1].result = "accepted"
  /\ calls["A"][2] = Call("updateJob", calls["A"][1].job_id, "ok")
  /\ jobStatus[calls["A"][1].job_id] = "ongoing"

\* C3: when the executor's reply has success false or no success field, the
\* pass makes no store call for that job, the job is in the failed list, and
\* the loop is at the next job (or has returned); and a job already recorded
\* is never the job in flight again, so no later call of the pass is for it.
C3_RejectedNeverUpdated ==
  \A p \in Passes :
    /\ (calls[p] # <<>> /\ calls[p][1].result \in {"rejected", "noFlag"}) =>
         /\ Len(calls[p]) = 1
         /\ FailedAndMovedOn(p)
    /\ InFlight(p) =>
         /\ Job(p).job_id \notin Recorded(p)
         /\ \A i \in 1..Len(calls[p]) : calls[p][i].job_id = Job(p).job_id

\* a first job without the flag, then the second job in flight
C3_Witness ==
  /\ Len(failedJobs["A"]) = 1
  /\ failedJobs["A"][1].error = "Flask API failure"
  /\ pc["A"] = "updateJob"
  /\ idx["A"] = 2

\* C4: when the job update returns an error, it is the last call made for
\* that job (no parts update follows), the job is in the failed list and the
\* loop is at the next job or has returned the summary.
C4_NoPartsUpdateAfterJobError ==
  \A p \in Passes : \A i \in 1..Len(calls[p]) :
    (calls[p][i].op = "updateJob" /\ calls[p][i].result = "error") =>
      /\ i = Len(calls[p])
      /\ FailedAndMovedOn(p)

C4_Witness ==
  /\ Len(calls["A"]) = 2
  /\ calls["A"][2].op = "updateJob" /\ calls["A"][2].result = "error"
  /\ pc["A"] = "submit"

\* C5: a thrown network error, an undecodable body or a thrown store error
\* ends the iteration of that job only: the job is in the failed list, the
\* loop is at the next job or has returned the 200 summary; the 500 response
\* is never given once the loop has been entered.
C5_ExceptionsContained ==
  \A p \in Passes :
    /\ (calls[p] # <<>> /\ LastResult(p) \in {"thrown", "notJson", "unreadable"}) =>
         FailedAndMovedOn(p)
    /\ (pc[p] = "done" /\ jobs[p] # <<>>) =>
         /\ response[p].status = 200
         /\ Summarised(p)
         /\ Recorded(p) = Fetched(p)

\* the first job threw on submission, the second was processed
C5_Witness ==
  /\ Summarised("A")
  /\ Len(jobs["A"]) = 2
  /\ failedJobs["A"] = <<Failure(jobs["A"][1].job_id, "network error")>>
  /\ processedJobs["A"] = <<jobs["A"][2].job_id>>


\* C6: with no other writer of the store, a job in the processed list was
\* accepted by the executor and has status ongoing, as have all its parts; at
\* the moment it is recorded the call log shows the accepted submission and
\* both updates succeeding.  A recorded job that is accepted but still undone,
\* or ongoing with an undone part, is in the failed list and not in the
\* processed list.
C6_ProcessedMeansDispatched ==
  \A p \in Passes :
    /\ \A j \in Processed(p) :
         /\ accepts[j] >= 1
         /\ jobStatus[j] = "ongoing"
         /\ \A part \in Parts : PartJob(part) = j => partStatus[part] = "ongoing"
         /\ calls[p][1].job_id = j =>
              calls[p] = <<Call("submit", j, "accepted"), Call("updateJob", j, "ok"),
                           Call("updateParts", j, "ok")>>
    /\ \A j \in Recorded(p) :
         (\/ accepts[j] >= 1 /\ jobStatus[j] = "undone"
          \/ /\ jobStatus[j] = "ongoing"
             /\ \E part \in Parts : PartJob(part) = j /\ partStatus[part] = "undone")
         => j \in Failed(p) /\ j \notin Processed(p)

\* one job processed, the other accepted and marked but its parts not updated
C6_Witness ==
  /\ Summarised("A")
  /\ Len(processedJobs["A"]) = 1
  /\ \E j \in Failed("A") :
       /\ jobStatus[j] = "ongoing"
       /\ \E part \in Parts : PartJob(part) = j /\ partStatus[part] = "undone"

\* the jobs of the batch of p before position i
Before(p, i) == {jobs[p][k].job_id : k \in 1..(i - 1)}

\* the position of job j in the batch of p
Position(p, j) == CHOOSE i \in 1..Len(jobs[p]) : jobs[p][i].job_id = j

\* C7: the batch is in ascending creation time; while the call for the job at
\* position idx is awaited, the submission issued is the one for that job and
\* exactly the jobs before it in the batch have their outcome recorded; both
\* lists hold their jobs in batch order.
C7_SubmittedInFetchOrder ==
  \A p \in Passes :
    /\ \A i, k \in 1..Len(jobs[p]) :
         i < k => CreatedAt(jobs[p][i].job_id) < CreatedAt(jobs[p][k].job_id)
    /\ InFlight(p) =>
         /\ calls[p][1].op = "submit" /\ calls[p][1].job_id = Job(p).job_id
         /\ Recorded(p) = Before(p, idx[p])
         /\ Len(processedJobs[p]) + Len(failedJobs[p]) = idx[p] - 1
    /\ pc[p] = "submit" =>
         /\ Recorded(p) = Before(p, idx[p])
         /\ Len(processedJobs[p]) + Len(failedJobs[p]) = idx[p] - 1
    /\ \A i, k \in 1..Len(processedJobs[p]) :
         i < k => Position(p, processedJobs[p][i]) < Position(p, processedJobs[p][k])
    /\ \A i, k \in 1..Len(failedJobs[p]) :
         i < k => Position(p, failedJobs[p][i].job_id) < Position(p, failedJobs[p][k].job_id)

\* the second job of a batch has been submitted after the store writes of the first
C7_Witness ==
  /\ pc["A"] = "flask"
  /\ idx["A"] = 2
  /\ processedJobs["A"] = <<jobs["A"][1].job_id>>
  /\ calls["A"] = <<Call("submit", jobs["A"][2].job_id, "pending")>>

\* C8: nothing excludes a second pass: a pass at the point of submitting a job
\* of its batch can always submit it, whatever the status of the job has
\* become in the store since the fetch.
C8_NoMutualExclusion ==
  \A p \in Passes : pc[p] = "submit" => ENABLED Submit(p)

\* double dispatch: both passes fetched the job while it was undone, the
\* executor has accepted it from both, and neither has written ongoing yet
C8_Witness ==
  \E j \in Jobs :
    /\ runs = 2
    /\ \A p \in Passes : pc[p] = "updateJob" /\ calls[p] = <<Call("submit", j, "accepted")>>
    /\ accepts[j] = 2
    /\ jobStatus[j] = "undone"

\* C9: a step of a pass never changes the status of a job that is ongoing,
\* done or failed.
C9_OnlyUndoneJobsWritten ==
  [][ (\E p \in Passes : calls'[p] # calls[p]) =>
        \A j \in Jobs : jobStatus[j] # "undone" => jobStatus'[j] = jobStatus[j] ]_vars

\* C10: when the rpc returns while no job is eligible, the pass answers 200
\* "No undone jobs found" (or 500 if the rpc failed), has made no executor or
\* store call, and the store and the executor are as before; this holds for
\* every such pass, the first and any later one.
C10_EmptyBatchNoEffect ==
  [][ \A p \in Passes :
        (pc[p] = "rpc" /\ pc'[p] # "rpc" /\ get_undone_scrape_jobs = <<>>) =>
          /\ response'[p] \in {NoJobsResponse, ErrorResponse("queryError")}
          /\ pc'[p] = "done"
          /\ calls'[p] = <<>> /\ processedJobs'[p] = <<>> /\ failedJobs'[p] = <<>>
          /\ jobStatus' = jobStatus /\ partStatus' = partStatus /\ accepts' = accepts ]_vars

\* a second pass that found nothing: the first one processed every job
C10_Witness ==
  /\ runs = 2
  /\ response["A"] = NoJobsResponse
  /\ \A j \in Jobs : accepts[j] = 1 /\ jobStatus[j] # "undone"


\* a request can arrive at pass p
Receptive(p) == pc[p] \in {"idle", "done"} /\ runs < MaxRuns

\* the executor has accepted nothing and no job is in progress
Untouched == /\ \A j \in Jobs : accepts[j] = 0 /\ jobStatus[j] # "ongoing"
             /\ \A part \in Parts : partStatus[part] # "ongoing"

ConfigMessages == {"SERVICE_ROLE_KEY environment variable is required",
                   "REDIS_URL environment variable is required"}

\* pass p has answered 500 with a configuration error, holding no batch,
\* no call and no outcome
ConfigAborted(p) ==
  /\ pc[p] = "done"
  /\ response[p].status = 500 /\ response[p].message \in ConfigMessages
  /\ jobs[p] = <<>> /\ calls[p] = <<>> /\ submitted[p] = <<>>
  /\ processedJobs[p] = <<>> /\ failedJobs[p] = <<>>

\* C11: while SERVICE_ROLE_KEY or REDIS_URL is missing, no pass ever awaits
\* the rpc, the executor or the store, nothing is dispatched, and every
\* request other than a pre-flight one is answered 500 with the
\* configuration error, leaving store and executor as they were.
C11_MissingConfigAborts ==
  (~env.SERVICE_ROLE_KEY \/ ~env.REDIS_URL) =>
    /\ Untouched
    /\ \A p \in Passes :
         /\ pc[p] \in {"idle", "done"}
         /\ jobs[p] = <<>> /\ calls[p] = <<>> /\ submitted[p] = <<>>
         /\ Receptive(p) =>
              /\ ENABLED Request(p, "POST")
              /\ ~ENABLED (/\ Request(p, "POST")
                           /\ ~(/\ ConfigAborted(p)'
                                /\ jobStatus' = jobStatus
                                /\ partStatus' = partStatus
                                /\ accepts' = accepts))

\* the executor URL is missing, a job is eligible, and the pass answered 500
C11_Witness ==
  /\ env.SERVICE_ROLE_KEY /\ ~env.REDIS_URL
  /\ get_undone_scrape_jobs # <<>>
  /\ ConfigAborted("A")
  /\ response["A"].message = "REDIS_URL environment variable is required"


\* pass p has answered 500 with the error of the rpc, holding no batch, no
\* call and no outcome
QueryAborted(p) ==
  /\ pc[p] = "done"
  /\ response[p] = ErrorResponse("queryError")
  /\ jobs[p] = <<>> /\ calls[p] = <<>> /\ submitted[p] = <<>>
  /\ processedJobs[p] = <<>> /\ failedJobs[p] = <<>>

\* C12: whenever the rpc is awaited, its returning an error ends the pass
\* with the 500 response and leaves store and executor as they were; and a
\* pass that answered 500 has submitted nothing, called no update and
\* carries no summary and no outcome list.
C12_QueryErrorAborts ==
  \A p \in Passes :
    /\ pc[p] = "rpc" =>
         /\ ENABLED Rpc(p, TRUE)
         /\ ~ENABLED (/\ Rpc(p, TRUE)
                      /\ ~(/\ QueryAborted(p)'
                           /\ jobStatus' = jobStatus
                           /\ partStatus' = partStatus
                           /\ accepts' = accepts))
    /\ response[p].status = 500 =>
         /\ pc[p] = "done" /\ ~Summarised(p)
         /\ submitted[p] = <<>> /\ calls[p] = <<>>
         /\ processedJobs[p] = <<>> /\ failedJobs[p] = <<>>
         /\ response[p].processed_jobs = <<>> /\ response[p].failed_jobs = <<>>
         /\ response[p].total_found = 0

\* the rpc failed while a job was eligible: 500 and nothing dispatched
C12_Witness ==
  /\ QueryAborted("A")
  /\ get_undone_scrape_jobs # <<>>
  /\ Untouched


\* pass p has acknowledged a pre-flight request and run nothing
Preflighted(p) ==
  /\ pc[p] = "done"
  /\ response[p] = PreflightResponse
  /\ jobs[p] = <<>> /\ calls[p] = <<>> /\ submitted[p] = <<>>
  /\ processedJobs[p] = <<>> /\ failedJobs[p] = <<>>

\* C13: an OPTIONS request is answered at once with the 200 "ok"
\* acknowledgment, whatever the configuration: the pass never awaits the rpc,
\* the executor or the store, and store and executor are as they were.
C13_PreflightRunsNothing ==
  \A p \in Passes :
    /\ Receptive(p) =>
         /\ ENABLED Request(p, "OPTIONS")
         /\ ~ENABLED (/\ Request(p, "OPTIONS")
                      /\ ~(/\ Preflighted(p)'
                           /\ jobStatus' = jobStatus
                           /\ partStatus' = partStatus
                           /\ accepts' = accepts))
    /\ response[p] = PreflightResponse => Preflighted(p)

\* the configuration is complete and a job is eligible, yet nothing was run
C13_Witness ==
  /\ env.SERVICE_ROLE_KEY /\ env.REDIS_URL
  /\ Preflighted("A")
  /\ get_undone_scrape_jobs # <<>>
  /\ Untouched


\* the jobs that are undone and all of whose parts are undone
FullyUndoneJobs ==
  {j \in Jobs : /\ jobStatus[j] = "undone"
                /\ \A part \in Parts : PartJob(part) = j => partStatus[part] = "undone"}

\* the rpc of pass p has just returned its batch: nothing has been written since
JustFetched(p) == pc[p] = "submit" /\ idx[p] = 1

\* C14: the batch the rpc returns holds exactly the jobs that are undone and
\* have no part that is not undone, in ascending creation time.
C14_FetchOnlyFullyUndone ==
  \A p \in Passes : JustFetched(p) =>
    /\ Fetched(p) = FullyUndoneJobs
    /\ \A i, k \in 1..Len(jobs[p]) :
         i < k => CreatedAt(jobs[p][i].job_id) < CreatedAt(jobs[p][k].job_id)


\* the failures the code records when the executor call or its reply fails
RemoteFailures ==
  {"network error", "body error", "Flask API error", "invalid JSON", "Flask API failure"}

\* the jobs pass p has recorded as failed with such a failure
RemotelyFailed(p) ==
  {failedJobs[p][i].job_id :
     i \in {k \in 1..Len(failedJobs[p]) : failedJobs[p][k].error \in RemoteFailures}}

\* how often pass p has submitted job j to the executor
TimesSubmitted(p, j) ==
  Cardinality({i \in 1..Len(submitted[p]) : submitted[p][i] = j})

\* the parts the rpc returned to pass p for job j: the payload of its submission
Payload(p, j) ==
  UNION {jobs[p][i].job_parts : i \in {k \in 1..Len(jobs[p]) : jobs[p][k].job_id = j}}

\* the rpc returns job j: its result has one row per group of GROUP BY sj.id
RpcReturns(j) == j \in UndoneJobIds

\* a job that failed at the executor is still undone, as are the parts that
\* were fetched with it; the rpc returns it again; it was submitted once
LeftUndone(p, j) ==
  /\ jobStatus[j] = "undone"
  /\ Payload(p, j) # {}
  /\ \A part \in Payload(p, j) : partStatus[part] = "undone"
  /\ RpcReturns(j)
  /\ TimesSubmitted(p, j) = 1
  /\ j \notin Processed(p)

\* C15: a job whose submission failed at the executor (network error,
\* non-2xx reply, unusable body, success flag false or absent) is not written
\* by the pass: the step that records the failure leaves the store as it is,
\* no step of the pass changes the status of such a job or of one of its
\* parts, the job and its fetched parts stay undone, so that the rpc returns
\* the job again, and the pass submits the job once only.
C15_RemoteFailureLeavesUndone ==
  [][\A p \in Passes :
       /\ RemotelyFailed(p)' # RemotelyFailed(p) => store' = store
       /\ \A j \in RemotelyFailed(p)' :
            /\ LeftUndone(p, j)'
            /\ jobStatus'[j] = jobStatus[j]
            /\ \A part \in Parts :
                 PartJob(part) = j => partStatus'[part] = partStatus[part]]_vars

\* a pass has returned its summary with one job failed by a network error
\* and the other by success false; both are still in what the rpc returns
C15_Witness ==
  /\ Summarised("A")
  /\ Len(failedJobs["A"]) = 2
  /\ failedJobs["A"][1].error = "network error"
  /\ failedJobs["A"][2].error = "Flask API failure"
  /\ RemotelyFailed("A") = Fetched("A")
  /\ Fetched("A") = Ids(get_undone_scrape_jobs)
  /\ \A j \in Fetched("A") : LeftUndone("A", j)


\* the job ids of the batch of pass p, in the order the rpc returned them
BatchIds(p) == [i \in 1..Len(jobs[p]) |-> jobs[p][i].job_id]

\* C16: a pass submits the jobs of its batch one after the other, each once:
\* while the loop is at job idx, the jobs submitted so far are the first idx
\* jobs of the batch (idx - 1 before the fetch of job idx is issued), whatever
\* was recorded for the earlier ones, and when the summary is returned they
\* are all jobs of the batch, each one once.
C16_EachJobSubmittedOnce ==
  \A p \in Passes :
    /\ pc[p] = "submit" => submitted[p] = SubSeq(BatchIds(p), 1, idx[p] - 1)
    /\ InFlight(p) => submitted[p] = SubSeq(BatchIds(p), 1, idx[p])
    /\ Summarised(p) => submitted[p] = BatchIds(p)
    /\ \A j \in Fetched(p) :
         /\ TimesSubmitted(p, j) <= 1
         /\ Summarised(p) => TimesSubmitted(p, j) = 1

\* a pass over two jobs has returned its summary: the first job failed with
\* a network error, the second was processed, and both were submitted once
C16_Witness ==
  /\ Summarised("A")
  /\ Len(jobs["A"]) = 2
  /\ Len(failedJobs["A"]) = 1
  /\ failedJobs["A"][1] = Failure(jobs["A"][1].job_id, "network error")
  /\ processedJobs["A"] = <<jobs["A"][2].job_id>>
  /\ submitted["A"] = BatchIds("A")
  /\ \A j \in Fetched("A") : TimesSubmitted("A", j) = 1


\* the last store call of pass p was the update of scrape_jobs for the job
\* the executor accepted, and it returned an error or rejected
UpdateJobFailed(p) ==
  /\ Len(calls[p]) = 2
  /\ calls[p][1].result = "accepted"
  /\ calls[p][2].op = "updateJob"
  /\ calls[p][2].result # "ok"

\* the job of the call log was accepted by the executor and is still undone
\* with its fetched parts, so that the rpc returns it again; the pass has it
\* in the failed list and has submitted it once
AcceptedUnmarked(p) ==
  LET j == calls[p][1].job_id IN
  /\ accepts[j] >= 1
  /\ LeftUndone(p, j)
  /\ j \in Failed(p)

\* C17: when the update of scrape_jobs fails for a job the executor has
\* accepted, the step writes nothing and undoes nothing (store and executor
\* are as before), the job goes to the failed list and the loop moves on
\* without submitting it again, and the job stays undone, so that the rpc of
\* a later pass returns it and it is submitted again (the witness is a second
\* acceptance of the same job by the executor in the next serial pass).
C17_AcceptedButStillUndone ==
  [][\A p \in Passes :
       /\ UpdateJobFailed(p)' => AcceptedUnmarked(p)'
       /\ pc[p] = "updateJob" /\ UpdateJobFailed(p)' =>
            /\ store' = store
            /\ accepts' = accepts
            /\ failedJobs'[p][Len(failedJobs'[p])].error
                 \in {"DB update error", "store error"}
            /\ FailedAndMovedOn(p)']_vars

\* in the second of two serial passes the executor has accepted a job it had
\* already accepted in the first pass, and the job is still undone
C17_Witness ==
  /\ runs = 2
  /\ pc["A"] = "updateJob"
  /\ accepts[Job("A").job_id] = 2
  /\ jobStatus[Job("A").job_id] = "undone"


\* the last store call of pass p was the update of scrape_job_parts, after
\* the update of scrape_jobs had succeeded, and it returned an error or rejected
UpdatePartsFailed(p) ==
  /\ Len(calls[p]) = 3
  /\ calls[p][2] = Call("updateJob", calls[p][1].job_id, "ok")
  /\ calls[p][3].op = "updateParts"
  /\ calls[p][3].result # "ok"

\* pass p is waiting for the update of the parts of job j
AtUpdateParts(p, j) == pc[p] = "updateParts" /\ Job(p).job_id = j

\* job j is ongoing with a part still undone and no pass is about to write
\* its parts
Stuck(j) ==
  /\ jobStatus[j] = "ongoing"
  /\ \E part \in Parts : PartJob(part) = j /\ partStatus[part] = "undone"
  /\ \A p \in Passes : ~AtUpdateParts(p, j)

\* C18: when the update of scrape_job_parts fails after the update of
\* scrape_jobs succeeded, the step writes nothing, the job goes to the failed
\* list and the loop moves on; the job is then ongoing with its fetched parts
\* undone and the rpc does not return it.  From then on no step of the
\* handler changes the job or its parts, no batch fetched later contains the
\* job, and the job is not submitted to the executor again.
C18_OngoingJobUndoneParts ==
  [][/\ \A p \in Passes, j \in Jobs :
          AtUpdateParts(p, j) /\ UpdatePartsFailed(p)' =>
            /\ store' = store
            /\ FailedAndMovedOn(p)'
            /\ failedJobs'[p][Len(failedJobs'[p])].error
                 \in {"DB parts update error", "store error"}
            /\ jobStatus'[j] = "ongoing"
            /\ \A part \in Payload(p, j) : partStatus'[part] = "undone"
            /\ Stuck(j)'
            /\ ~RpcReturns(j)'
     /\ \A j \in Jobs :
          Stuck(j) =>
            /\ Stuck(j)'
            /\ jobStatus'[j] = jobStatus[j]
            /\ \A part \in Parts :
                 PartJob(part) = j => partStatus'[part] = partStatus[part]
            /\ accepts'[j] = accepts[j]
            /\ ~RpcReturns(j)'
            /\ \A p \in Passes :
                 /\ jobs'[p] # jobs[p] => j \notin Fetched(p)'
                 /\ submitted'[p] # submitted[p] /\ submitted'[p] # <<>> =>
                      submitted'[p][Len(submitted'[p])] # j]_vars

\* a job was accepted once and marked ongoing, its parts update failed, and
\* the next pass has found no undone jobs although the job's parts are undone
C18_Witness ==
  /\ runs = 2
  /\ response["A"] = NoJobsResponse
  /\ \E j \in Jobs :
       /\ Stuck(j)
       /\ accepts[j] = 1
       /\ \A part \in Parts : PartJob(part) = j => partStatus[part] = "undone"


\* the parts whose status a step changes
PartsWritten == {part \in Parts : partStatus'[part] # partStatus[part]}

\* C19: the step that completes the dispatch of a job (its parts update
\* succeeds and the job goes to the processed list) changes the status of
\* exactly the parts that were in the payload submitted for the job, and sets
\* them to ongoing.
C19_MarkedPartsArePayload ==
  [][\A p \in Passes, j \in Jobs :
       AtUpdateParts(p, j) /\ j \in Processed(p)' =>
         /\ PartsWritten = Payload(p, j)
         /\ \A part \in Payload(p, j) : partStatus'[part] = "ongoing"]_vars


\* C20: whether or not the executor answers, a pass that waits for the
\* executor eventually stops waiting, and a pass that has a batch eventually
\* returns its summary.
C20_ExecutorWaitBounded ==
  \A p \in {"A"} :
    /\ (pc[p] = "flask") ~> (pc[p] # "flask")
    /\ (pc[p] = "submit") ~> Summarised(p)

====
